---- MODULE Spec2Model ----
(***************************************************************************)
(* Model of update_org_mods.py: the batch loop manage_update over a list   *)
(* of pids, the JSON tracker file next to the pid file, the remote MODS    *)
(* documents, and the temporary files of save_mods.                        *)
(*                                                                         *)
(* The process is sequential.  pc is its position in manage_update; the    *)
(* tracker file, the remote documents and the temporary files outlive the  *)
(* process, which may be terminated at any position and started again.     *)
(*                                                                         *)
(* Spec is that process.  SpecIO adds errors of the tracker file's input   *)
(* and output, SpecCalls calls the tracker functions directly with any     *)
(* status, and SpecConc runs two processes on one tracker file.            *)
(***************************************************************************)
EXTENDS Integers, Sequences, FiniteSets, TLC

\* ---- bounds -------------------------------------------------------------
MaxPids == 2
MaxRuns == 2

\* ---- values -------------------------------------------------------------
Pids == {"A1", "A2"}

NoKey == "NO_KEY"
TerminalStatuses == {"done", "error; see logs", "element_already_exists"}

\* A document text: wf says whether it parses, kids lists the tags of the
\* root's children in order.  The tag "recordInfo" stands for the literal
\* text '<mods:recordInfo>'.
Docs ==
  { [wf |-> w, kids |-> k] :
      w \in BOOLEAN,
      k \in { <<"titleInfo">>, <<"titleInfo", "name">>,
              <<"titleInfo", "recordInfo">> } }
NoDoc == [wf |-> FALSE, kids |-> <<>>]

\* The text d holds the opening tag of the record-info element.
ContainsMarkerTag(d) == \E n \in 1..Len(d.kids) : d.kids[n] = "recordInfo"

\* The tracker file: absent, zero-length ("empty"), a cut-off JSON text
\* ("partial"), or a JSON object ("json") whose mapping is map.
NoMap == [p \in Pids |-> NoKey]
AbsentFile == [kind |-> "absent", map |-> NoMap]
EmptyFile == [kind |-> "empty", map |-> NoMap]
PartialFile == [kind |-> "partial", map |-> NoMap]
EmptyJson == [kind |-> "json", map |-> NoMap]

RECURSIVE SeqsUpTo(_)
SeqsUpTo(n) ==
  IF n = 0 THEN { <<>> }
  ELSE LET shorter == SeqsUpTo(n - 1)
       IN shorter \cup { Append(s, p) : s \in { t \in shorter : Len(t) = n - 1 }, p \in Pids }

VARIABLES
  pids,           \* the non-empty stripped lines of the pid file, in order
  remote,         \* the MODS document the server holds for each pid
  trackerFile,    \* tracker.json
  tempLeft,       \* number of '.mods' temporary files on disk
  pc,             \* position of the process in manage_update
  i,              \* index of the loop variable pid in pids
  mods,           \* local variable mods
  updated_mods,   \* local variable updated_mods
  success_check,  \* local variable success_check
  outcome,        \* how the last invocation of the posting binary ended
  runNo,          \* number of runs started so far
  startMap,       \* tracker statuses as the current run first reads them
  prevEnd,        \* tracker statuses as the previous run left them
  fetched,        \* pids for which get_mods ran in the current run
  mutated,        \* pids for which update_local_mods_string ran in the run
  published,      \* pids for which save_mods ran in the current run
  sawMarker,      \* pids fetched in the run with the marker tag in the text
  lastSet,        \* status of the last completed update_tracker per pid
  everKeyed,      \* pids that had a key in the tracker file at some time
  failedAt,       \* index of the pid at which an error left the run, or 0
  atFailure,      \* what a read of the tracker gave per pid before the error
  PREBUILT_RECORD_INFO_ELEMENT, \* the element built once per run
  call,           \* the last direct call of a helper function and its result
  runs,           \* two processes on one tracker file: the state of each
  discarded       \* pids whose tracker entry a rewrite of another run removed

vars == << pids, remote, trackerFile, tempLeft, pc, i, mods, updated_mods,
           success_check, outcome, runNo, startMap, prevEnd, fetched, mutated,
           published, sawMarker, lastSet, everKeyed, failedAt, atFailure,
           PREBUILT_RECORD_INFO_ELEMENT, call, runs, discarded >>

locals == << mods, updated_mods, success_check, outcome >>
ghosts == << startMap, prevEnd, fetched, mutated, published, sawMarker >>
failure == << failedAt, atFailure >>
aside == << call, runs, discarded >>

\* ---- helper functions of the source ------------------------------------

\* create_tracker: writes '{}' unless the file exists with a size above 0.
create_tracker_if_missing(f) ==
  IF f.kind # "absent" THEN f ELSE EmptyJson
create_tracker(f) ==
  IF f.kind \in {"json", "partial"} THEN f ELSE EmptyJson

\* json.loads of the file content succeeds.
tracker_loads(f) == f.kind = "json"

\* check_if_pid_was_processed: tracker.get( pid, 'not_done' ).
check_if_pid_was_processed_skip(pid, f) == "not_done"
check_if_pid_was_processed(pid, f) ==
  IF f.map[pid] = NoKey THEN "not_done" ELSE f.map[pid]

\* update_tracker: the assert, the load, tracker[pid] = status, the rewrite.
update_tracker_raises_unasserted(f, status) == ~tracker_loads(f)
update_tracker_raises(f, status) ==
  status \notin TerminalStatuses \/ ~tracker_loads(f)

update_tracker_unsaved(pid, f, status) == f
update_tracker_clobber(pid, f, status) ==
  IF update_tracker_raises(f, status) THEN f
  ELSE [kind |-> "json", map |-> [NoMap EXCEPT ![pid] = status]]
update_tracker(pid, f, status) ==
  IF update_tracker_raises(f, status) THEN f
  ELSE [kind |-> "json", map |-> [f.map EXCEPT ![pid] = status]]

\* The text update_tracker writes: the mapping it loaded, with tracker[pid]
\* set; what the file holds at the time of the write plays no part.
tracker_rewrite_merged(loaded, onDisk, pid, status) ==
  [kind |-> "json", map |-> [onDisk.map EXCEPT ![pid] = status]]
tracker_rewrite(loaded, onDisk, pid, status) ==
  [kind |-> "json", map |-> [loaded EXCEPT ![pid] = status]]

\* The content of a file opened with 'w' when the process is terminated
\* before the text is flushed and closed: nothing, or a part of the text.
cut_off_writes == { EmptyFile, PartialFile }

\* check_if_element_exists: '<mods:recordInfo>' in mods.
marker_in_mods_never(d) == FALSE
marker_in_mods(d) == ContainsMarkerTag(d)

\* create_record_info_element: a new <mods:recordInfo> element with its
\* note child; attached says whether the element has a parent.
create_record_info_element == [tag |-> "recordInfo", attached |-> FALSE]

\* root.append( el ): lxml moves el out of the tree it is in, if any, and
\* makes it the last child of root.
append_element_once(kids, el) ==
  IF el.attached THEN kids ELSE Append(kids, el.tag)
append_element(kids, el) == Append(kids, el.tag)
element_after_append(el) == [el EXCEPT !.attached = TRUE]

\* update_local_mods_string: parse, append the prebuilt element, serialize.
parse_fails(d) == ~d.wf
update_local_mods_string(d, el) ==
  [wf |-> TRUE, kids |-> append_element(d.kids, el)]

\* save_mods: the ways one call can go.
\*   "writefail"  temp_file.write (or the close of the with block) raises
\*   "zero"       subprocess.run returns with returncode 0
\*   "nonzero"    subprocess.run returns with another returncode
\*   "exception"  subprocess.run raises
SaveOutcomes == {"writefail", "zero", "nonzero", "exception"}

\* the value of success_check at the return statement
save_mods_success_any_exit(o) == o \in {"zero", "nonzero"}
save_mods_success(o) == o = "zero"

\* the call leaves save_mods by an exception instead of the return
save_mods_propagates_uncaught(o) == o \in {"writefail", "exception"}
save_mods_propagates(o) == o = "writefail"

\* the temporary file is still on disk when control leaves save_mods
save_mods_leaves_temp(o) == o = "writefail"

\* What the file shows for each pid: its entry, or not_done without one.
Statuses(f) ==
  [p \in Pids |-> IF f.map[p] = NoKey THEN "not_done" ELSE f.map[p]]
Keys(f) == { p \in Pids : f.map[p] # NoKey }

\* What a call of check_if_pid_was_processed gives: the status, or the
\* error of open or json.loads.
Read(p, f) ==
  IF tracker_loads(f) THEN check_if_pid_was_processed(p, f) ELSE "raises"
Reads(f) == [p \in Pids |-> Read(p, f)]

NoCall ==
  [op |-> "none", pid |-> "", status |-> "", before |-> AbsentFile,
   raised |-> FALSE, ret |-> ""]

\* The two processes of the concurrent specification, and a process that
\* has not started.
Runs == {1, 2}
NoRun ==
  [pc |-> "start", i |-> 1, mods |-> NoDoc, updated_mods |-> NoDoc,
   element |-> create_record_info_element, status |-> "", tracker |-> NoMap,
   published |-> {}]

\* ---- initial state ------------------------------------------------------
Init ==
  /\ pids \in SeqsUpTo(MaxPids)
  /\ remote \in [Pids -> Docs]
  /\ trackerFile = AbsentFile
  /\ tempLeft = 0
  /\ pc = "idle"
  /\ i = 1
  /\ mods = NoDoc
  /\ updated_mods = NoDoc
  /\ success_check = FALSE
  /\ outcome = "none"
  /\ runNo = 0
  /\ startMap = [p \in Pids |-> "not_done"]
  /\ prevEnd = [p \in Pids |-> "not_done"]
  /\ fetched = {}
  /\ mutated = {}
  /\ published = {}
  /\ sawMarker = {}
  /\ lastSet = NoMap
  /\ everKeyed = {}
  /\ failedAt = 0
  /\ atFailure = [p \in Pids |-> "not_done"]
  /\ PREBUILT_RECORD_INFO_ELEMENT = create_record_info_element
  /\ call = NoCall
  /\ runs = [r \in Runs |-> NoRun]
  /\ discarded = {}

Stopped == {"idle", "returned", "aborted", "dead"}
Running == {"check", "fetch", "exists", "mutate", "save", "track"}

pid == pids[i]

ResetRun ==
  /\ i' = 1
  /\ mods' = NoDoc
  /\ updated_mods' = NoDoc
  /\ success_check' = FALSE
  /\ outcome' = "none"
  /\ runNo' = runNo + 1
  /\ prevEnd' = Statuses(trackerFile)
  /\ fetched' = {}
  /\ mutated' = {}
  /\ published' = {}
  /\ sawMarker' = {}
  /\ failedAt' = 0
  /\ atFailure' = [p \in Pids |-> "not_done"]
  /\ PREBUILT_RECORD_INFO_ELEMENT' = create_record_info_element

\* An error leaves manage_update while pids[i] is being processed.
Fails ==
  /\ failedAt' = i
  /\ atFailure' = Reads(trackerFile)

\* ---- manage_update ------------------------------------------------------

\* A new process: load_pids, create_tracker, create_record_info_element.
StartRun ==
  /\ pc \in Stopped
  /\ runNo < MaxRuns
  /\ ResetRun
  /\ trackerFile' = create_tracker(trackerFile)
  /\ startMap' = Statuses(trackerFile')
  /\ pc' = "check"
  /\ UNCHANGED << pids, remote, tempLeft, lastSet, everKeyed >>
  /\ UNCHANGED aside

\* A new process that is terminated inside create_tracker, after the
\* open( ..., 'w' ) and before the '{}' is on disk.
KillInCreateTracker ==
  /\ pc \in Stopped
  /\ runNo < MaxRuns
  /\ create_tracker(trackerFile) # trackerFile
  /\ ResetRun
  /\ trackerFile' = EmptyFile
  /\ startMap' = Statuses(trackerFile')
  /\ pc' = "dead"
  /\ UNCHANGED << pids, remote, tempLeft, lastSet, everKeyed >>
  /\ UNCHANGED aside

\* The head of the loop and check_if_pid_was_processed.
CheckProcessed ==
  /\ pc = "check"
  /\ IF i > Len(pids)
       THEN pc' = "returned" /\ i' = i /\ UNCHANGED failure
       ELSE IF ~tracker_loads(trackerFile)
         THEN pc' = "aborted" /\ i' = i /\ Fails
         ELSE /\ UNCHANGED failure
              /\ IF check_if_pid_was_processed(pid, trackerFile) # "not_done"
                   THEN pc' = "check" /\ i' = i + 1
                   ELSE pc' = "fetch" /\ i' = i
  /\ UNCHANGED << pids, remote, trackerFile, tempLeft, locals, runNo, ghosts,
                  lastSet, everKeyed, PREBUILT_RECORD_INFO_ELEMENT >>
  /\ UNCHANGED aside

\* get_mods returns the body of the response.
GetMods ==
  /\ pc = "fetch"
  /\ mods' = remote[pid]
  /\ fetched' = fetched \cup {pid}
  /\ sawMarker' = IF ContainsMarkerTag(remote[pid]) THEN sawMarker \cup {pid}
                                                    ELSE sawMarker
  /\ pc' = "exists"
  /\ UNCHANGED << pids, remote, trackerFile, tempLeft, i, updated_mods,
                  success_check, outcome, runNo, startMap, prevEnd, mutated,
                  published, lastSet, everKeyed, failure,
                  PREBUILT_RECORD_INFO_ELEMENT >>
  /\ UNCHANGED aside

\* httpx.get raises: the error leaves manage_update.
GetModsFails ==
  /\ pc = "fetch"
  /\ fetched' = fetched \cup {pid}
  /\ pc' = "aborted"
  /\ Fails
  /\ UNCHANGED << pids, remote, trackerFile, tempLeft, i, locals, runNo,
                  startMap, prevEnd, mutated, published, sawMarker, lastSet,
                  everKeyed, PREBUILT_RECORD_INFO_ELEMENT >>
  /\ UNCHANGED aside

\* The effect of a completed update_tracker( pid, tracker_filepath, s ).
TrackerUpdated(s) ==
  /\ trackerFile' = update_tracker(pid, trackerFile, s)
  /\ IF update_tracker_raises(trackerFile, s)
       THEN pc' = "aborted" /\ i' = i /\ Fails
            /\ UNCHANGED << lastSet, everKeyed >>
       ELSE /\ pc' = "check"
            /\ i' = i + 1
            /\ UNCHANGED failure
            /\ lastSet' = [lastSet EXCEPT ![pid] = s]
            /\ everKeyed' = everKeyed \cup Keys(trackerFile')

\* check_if_element_exists and the continue after it.
CheckIfElementExists ==
  /\ pc = "exists"
  /\ IF marker_in_mods(mods)
       THEN TrackerUpdated("element_already_exists")
       ELSE /\ pc' = "mutate"
            /\ UNCHANGED << trackerFile, i, lastSet, everKeyed, failure >>
  /\ UNCHANGED << pids, remote, tempLeft, locals, runNo, ghosts,
                  PREBUILT_RECORD_INFO_ELEMENT >>
  /\ UNCHANGED aside

\* update_local_mods_string; a text that does not parse raises.
UpdateLocalModsString ==
  /\ pc = "mutate"
  /\ mutated' = mutated \cup {pid}
  /\ IF parse_fails(mods)
       THEN /\ pc' = "aborted"
            /\ Fails
            /\ UNCHANGED << updated_mods, PREBUILT_RECORD_INFO_ELEMENT >>
       ELSE /\ pc' = "save"
            /\ updated_mods' =
                 update_local_mods_string(mods, PREBUILT_RECORD_INFO_ELEMENT)
            /\ PREBUILT_RECORD_INFO_ELEMENT' =
                 element_after_append(PREBUILT_RECORD_INFO_ELEMENT)
            /\ UNCHANGED failure
  /\ UNCHANGED << pids, remote, trackerFile, tempLeft, i, mods, success_check,
                  outcome, runNo, startMap, prevEnd, fetched, published,
                  sawMarker, lastSet, everKeyed >>
  /\ UNCHANGED aside

\* save_mods, from the creation of the temporary file to the return or the
\* exception.  A returncode of 0 means the binary stored the document.
SaveMods ==
  /\ pc = "save"
  /\ \E o \in SaveOutcomes :
       /\ outcome' = o
       /\ published' = published \cup {pid}
       /\ success_check' = save_mods_success(o)
       /\ pc' = IF save_mods_propagates(o) THEN "aborted" ELSE "track"
       /\ tempLeft' = IF save_mods_leaves_temp(o) THEN tempLeft + 1 ELSE tempLeft
       /\ remote' = IF o = "zero" THEN [remote EXCEPT ![pid] = updated_mods]
                                  ELSE remote
  /\ UNCHANGED << pids, trackerFile, i, mods, updated_mods, runNo, startMap,
                  prevEnd, fetched, mutated, sawMarker, lastSet, everKeyed,
                  failure, PREBUILT_RECORD_INFO_ELEMENT >>
  /\ UNCHANGED aside

\* The update_tracker call that ends the loop body.
RecordResult ==
  /\ pc = "track"
  /\ TrackerUpdated(IF success_check THEN "done" ELSE "error; see logs")
  /\ UNCHANGED << pids, remote, tempLeft, locals, runNo, ghosts,
                  PREBUILT_RECORD_INFO_ELEMENT >>
  /\ UNCHANGED aside

\* ---- termination of the process from outside ---------------------------

\* The process is terminated between two steps of manage_update.
Kill ==
  /\ pc \in Running
  /\ pc' = "dead"
  /\ UNCHANGED << pids, remote, trackerFile, tempLeft, i, locals, runNo,
                  ghosts, lastSet, everKeyed, failure,
                  PREBUILT_RECORD_INFO_ELEMENT >>
  /\ UNCHANGED aside

\* The process is terminated inside update_tracker, after the
\* open( ..., 'w' ) and before the new text is flushed and closed.
KillInUpdateTracker ==
  /\ \/ pc = "track"
     \/ pc = "exists" /\ marker_in_mods(mods)
  /\ tracker_loads(trackerFile)
  /\ trackerFile' \in cut_off_writes
  /\ pc' = "dead"
  /\ UNCHANGED << pids, remote, tempLeft, i, locals, runNo, ghosts, lastSet,
                  everKeyed, failure, PREBUILT_RECORD_INFO_ELEMENT >>
  /\ UNCHANGED aside

\* The process is terminated inside save_mods while the temporary file is
\* on disk and the binary has not stored the document.
KillInSaveMods ==
  /\ pc = "save"
  /\ published' = published \cup {pid}
  /\ tempLeft' = tempLeft + 1
  /\ pc' = "dead"
  /\ UNCHANGED << pids, remote, trackerFile, i, locals, runNo, startMap,
                  prevEnd, fetched, mutated, sawMarker, lastSet, everKeyed,
                  failure, PREBUILT_RECORD_INFO_ELEMENT >>
  /\ UNCHANGED aside

Next ==
  \/ StartRun
  \/ KillInCreateTracker
  \/ CheckProcessed
  \/ GetMods
  \/ GetModsFails
  \/ CheckIfElementExists
  \/ UpdateLocalModsString
  \/ SaveMods
  \/ RecordResult
  \/ Kill
  \/ KillInUpdateTracker
  \/ KillInSaveMods

Spec == Init /\ [][Next]_vars

\* ---- errors of the tracker file's input and output -----------------------

\* open( tracker_filepath, 'r' ) raises in check_if_pid_was_processed or in
\* update_tracker: the file is as it was and the error leaves manage_update.
TrackerReadFails ==
  /\ \/ pc = "check" /\ i <= Len(pids)
     \/ pc = "exists" /\ marker_in_mods(mods)
     \/ pc = "track"
  /\ pc' = "aborted"
  /\ Fails
  /\ UNCHANGED << pids, remote, trackerFile, tempLeft, i, locals, runNo,
                  ghosts, lastSet, everKeyed, PREBUILT_RECORD_INFO_ELEMENT >>
  /\ UNCHANGED aside

\* The write of update_tracker raises after open( tracker_filepath, 'w' )
\* has emptied the file: the error leaves manage_update.
TrackerWriteFails ==
  /\ \/ pc = "exists" /\ marker_in_mods(mods)
     \/ pc = "track"
  /\ tracker_loads(trackerFile)
  /\ trackerFile' \in cut_off_writes
  /\ pc' = "aborted"
  /\ Fails
  /\ UNCHANGED << pids, remote, tempLeft, i, locals, runNo, ghosts, lastSet,
                  everKeyed, PREBUILT_RECORD_INFO_ELEMENT >>
  /\ UNCHANGED aside

NextIO ==
  \/ Next
  \/ TrackerReadFails
  \/ TrackerWriteFails

SpecIO == Init /\ [][NextIO]_vars

\* ---- direct calls of the tracker functions ------------------------------

\* The tracker files the program can leave behind.
TrackerFiles ==
  { AbsentFile, EmptyFile, PartialFile } \cup
  { [kind |-> "json", map |-> m] : m \in [Pids -> TerminalStatuses \cup {NoKey}] }

\* Values for the status parameter, the three of the assert and others.
StatusArgs == TerminalStatuses \cup {"not_done", "in progress"}

unitFrame ==
  << pids, remote, tempLeft, pc, i, locals, runNo, ghosts, lastSet, everKeyed,
     failure, PREBUILT_RECORD_INFO_ELEMENT >>

InitCalls ==
  /\ pids = << >>
  /\ remote = [p \in Pids |-> [wf |-> TRUE, kids |-> <<"titleInfo">>]]
  /\ trackerFile \in TrackerFiles
  /\ tempLeft = 0
  /\ pc = "unit"
  /\ i = 1
  /\ mods = NoDoc
  /\ updated_mods = NoDoc
  /\ success_check = FALSE
  /\ outcome = "none"
  /\ runNo = 0
  /\ startMap = [p \in Pids |-> "not_done"]
  /\ prevEnd = [p \in Pids |-> "not_done"]
  /\ fetched = {}
  /\ mutated = {}
  /\ published = {}
  /\ sawMarker = {}
  /\ lastSet = NoMap
  /\ everKeyed = {}
  /\ failedAt = 0
  /\ atFailure = [p \in Pids |-> "not_done"]
  /\ PREBUILT_RECORD_INFO_ELEMENT = create_record_info_element
  /\ call = NoCall
  /\ runs = [r \in Runs |-> NoRun]
  /\ discarded = {}

\* update_tracker( p, tracker_filepath, s )
CallUpdateTracker ==
  /\ pc = "unit"
  /\ \E p \in Pids, s \in StatusArgs :
       /\ trackerFile' = update_tracker(p, trackerFile, s)
       /\ call' = [op |-> "update_tracker", pid |-> p, status |-> s,
                   before |-> trackerFile,
                   raised |-> update_tracker_raises(trackerFile, s),
                   ret |-> ""]
  /\ UNCHANGED << unitFrame, runs, discarded >>

\* check_if_pid_was_processed( p, tracker_filepath )
CallCheckIfPidWasProcessed ==
  /\ pc = "unit"
  /\ \E p \in Pids :
       call' = [op |-> "check_if_pid_was_processed", pid |-> p, status |-> "",
                before |-> trackerFile,
                raised |-> ~tracker_loads(trackerFile),
                ret |-> Read(p, trackerFile)]
  /\ UNCHANGED trackerFile
  /\ UNCHANGED << unitFrame, runs, discarded >>

NextCalls ==
  \/ CallUpdateTracker
  \/ CallCheckIfPidWasProcessed

SpecCalls == InitCalls /\ [][NextCalls]_vars

TypeOK ==
  /\ pc \in Stopped \cup Running
  /\ trackerFile.kind \in {"absent", "empty", "partial", "json"}
  /\ pc \in Running \ {"check"} => i \in 1..Len(pids)
  /\ fetched \subseteq Pids /\ published \subseteq fetched

\* ---- two runs of manage_update on one tracker file --------------------------
\* Each process follows manage_update; update_tracker is two steps, the
\* json.load of lines 94-95 and the rewrite of lines 99-100, and steps of
\* the other process can come between them.

concFrame ==
  << pids, tempLeft, pc, i, locals, runNo, ghosts, lastSet, everKeyed,
     failure, PREBUILT_RECORD_INFO_ELEMENT, call >>

InitConc ==
  /\ pids \in SeqsUpTo(MaxPids)
  /\ remote \in [Pids -> { d \in Docs : d.wf }]
  /\ trackerFile = AbsentFile
  /\ tempLeft = 0
  /\ pc = "conc"
  /\ i = 1
  /\ mods = NoDoc
  /\ updated_mods = NoDoc
  /\ success_check = FALSE
  /\ outcome = "none"
  /\ runNo = 0
  /\ startMap = [p \in Pids |-> "not_done"]
  /\ prevEnd = [p \in Pids |-> "not_done"]
  /\ fetched = {}
  /\ mutated = {}
  /\ published = {}
  /\ sawMarker = {}
  /\ lastSet = NoMap
  /\ everKeyed = {}
  /\ failedAt = 0
  /\ atFailure = [p \in Pids |-> "not_done"]
  /\ PREBUILT_RECORD_INFO_ELEMENT = create_record_info_element
  /\ call = NoCall
  /\ runs = [r \in Runs |-> NoRun]
  /\ discarded = {}

rpid(r) == pids[runs[r].i]

\* load_pids, create_tracker, create_record_info_element
CStart(r) ==
  /\ runs[r].pc = "start"
  /\ trackerFile' = create_tracker(trackerFile)
  /\ runs' = [runs EXCEPT ![r].pc = "check"]
  /\ UNCHANGED << remote, discarded, concFrame >>

\* the head of the loop and check_if_pid_was_processed
CCheck(r) ==
  /\ runs[r].pc = "check"
  /\ runs' = [runs EXCEPT ![r] =
       IF runs[r].i > Len(pids) THEN [@ EXCEPT !.pc = "returned"]
       ELSE IF ~tracker_loads(trackerFile) THEN [@ EXCEPT !.pc = "aborted"]
       ELSE IF check_if_pid_was_processed(rpid(r), trackerFile) # "not_done"
         THEN [@ EXCEPT !.i = @ + 1]
         ELSE [@ EXCEPT !.pc = "fetch"]]
  /\ UNCHANGED << remote, trackerFile, discarded, concFrame >>

\* get_mods
CGetMods(r) ==
  /\ runs[r].pc = "fetch"
  /\ runs' = [runs EXCEPT ![r] = [@ EXCEPT !.pc = "exists",
                                           !.mods = remote[rpid(r)]]]
  /\ UNCHANGED << remote, trackerFile, discarded, concFrame >>

\* check_if_element_exists up to its call of update_tracker
CCheckIfElementExists(r) ==
  /\ runs[r].pc = "exists"
  /\ runs' = [runs EXCEPT ![r] =
       IF marker_in_mods(runs[r].mods)
         THEN [@ EXCEPT !.pc = "load", !.status = "element_already_exists"]
         ELSE [@ EXCEPT !.pc = "mutate"]]
  /\ UNCHANGED << remote, trackerFile, discarded, concFrame >>

\* update_local_mods_string
CUpdateLocalModsString(r) ==
  /\ runs[r].pc = "mutate"
  /\ runs' = [runs EXCEPT ![r] =
       IF parse_fails(runs[r].mods) THEN [@ EXCEPT !.pc = "aborted"]
       ELSE [@ EXCEPT !.pc = "save",
                      !.updated_mods =
                         update_local_mods_string(runs[r].mods, runs[r].element),
                      !.element = element_after_append(runs[r].element)]]
  /\ UNCHANGED << remote, trackerFile, discarded, concFrame >>

\* save_mods and the choice of the status at lines 214-217
CSaveMods(r) ==
  /\ runs[r].pc = "save"
  /\ \E o \in SaveOutcomes :
       /\ runs' = [runs EXCEPT ![r] =
            [@ EXCEPT !.pc = IF save_mods_propagates(o) THEN "aborted" ELSE "load",
                      !.published = @ \cup {rpid(r)},
                      !.status = IF save_mods_success(o) THEN "done"
                                                         ELSE "error; see logs"]]
       /\ remote' = IF o = "zero"
                      THEN [remote EXCEPT ![rpid(r)] = runs[r].updated_mods]
                      ELSE remote
  /\ UNCHANGED << trackerFile, discarded, concFrame >>

\* update_tracker, lines 92-95: the assert and json.load
CLoadTracker(r) ==
  /\ runs[r].pc = "load"
  /\ runs' = [runs EXCEPT ![r] =
       IF update_tracker_raises(trackerFile, runs[r].status)
         THEN [@ EXCEPT !.pc = "aborted"]
         ELSE [@ EXCEPT !.pc = "rewrite", !.tracker = trackerFile.map]]
  /\ UNCHANGED << remote, trackerFile, discarded, concFrame >>

\* update_tracker, lines 97-100: tracker[pid] = status and the rewrite
CRewriteTracker(r) ==
  /\ runs[r].pc = "rewrite"
  /\ trackerFile' =
       tracker_rewrite(runs[r].tracker, trackerFile, rpid(r), runs[r].status)
  /\ discarded' = discarded \cup (Keys(trackerFile) \ Keys(trackerFile'))
  /\ runs' = [runs EXCEPT ![r] = [@ EXCEPT !.pc = "check", !.i = @ + 1]]
  /\ UNCHANGED << remote, concFrame >>

NextConc ==
  \/ \E r \in Runs : CStart(r)
  \/ \E r \in Runs : CCheck(r)
  \/ \E r \in Runs : CGetMods(r)
  \/ \E r \in Runs : CCheckIfElementExists(r)
  \/ \E r \in Runs : CUpdateLocalModsString(r)
  \/ \E r \in Runs : CSaveMods(r)
  \/ \E r \in Runs : CLoadTracker(r)
  \/ \E r \in Runs : CRewriteTracker(r)

SpecConc == InitConc /\ [][NextConc]_vars

\* ---- properties ---------------------------------------------------------

\* C1  Resume safety: a pid whose tracker status is terminal when a run
\* starts is neither fetched (get_mods) nor published (save_mods) in
\* that run.
ResumeSafety ==
  \A p \in Pids :
    startMap[p] \in TerminalStatuses => p \notin fetched /\ p \notin published

\* A second run has returned after passing over a pid that was terminal at
\* its start, and has fetched another pid.
ResumeSafetyWitness ==
  /\ pc = "returned"
  /\ \E n \in 1..Len(pids) : startMap[pids[n]] \in TerminalStatuses
  /\ fetched # {}

\* C2  Idempotence: in a run that follows another run, a pid that the
\* earlier run left with a terminal status is neither fetched nor
\* published, and as long as the process is not terminated its tracker
\* entry stays what the earlier run left.
Idempotence ==
  runNo >= 2 =>
    \A p \in Pids :
      prevEnd[p] \in TerminalStatuses =>
        /\ p \notin fetched
        /\ p \notin published
        /\ pc # "dead" => Statuses(trackerFile)[p] = prevEnd[p]

\* The second run has completed an update_tracker for one pid while another
\* pid keeps the terminal status of the first run.
IdempotenceWitness ==
  /\ runNo >= 2
  /\ pc = "returned"
  /\ \E p \in Pids, q \in Pids :
       /\ prevEnd[p] \in TerminalStatuses
       /\ prevEnd[q] = "not_done"
       /\ Statuses(trackerFile)[q] \in TerminalStatuses

\* C3  Marker idempotence: a not_done pid whose fetched text holds the
\* marker tag is never handed to update_local_mods_string or save_mods in
\* that run, and once check_if_element_exists is through (the process not
\* being terminated) its tracker status is element_already_exists.
MarkerIdempotence ==
  \A p \in sawMarker :
    /\ p \notin mutated
    /\ p \notin published
    /\ (pc # "dead" /\ ~(pc = "exists" /\ pid = p)) =>
         Statuses(trackerFile)[p] = "element_already_exists"

\* A pid fetched with the marker tag has been recorded and the loop is on
\* its way to the next pid.
MarkerIdempotenceWitness ==
  /\ pc = "check"
  /\ i > 1
  /\ pids[i - 1] \in sawMarker
  /\ startMap[pids[i - 1]] = "not_done"
  /\ Statuses(trackerFile)[pids[i - 1]] = "element_already_exists"

\* C4  When the update_tracker call after save_mods completes, the status
\* of the pid is done exactly when the binary exited with code 0, and
\* 'error; see logs' exactly when it exited otherwise or its invocation
\* raised.
PublishStatus ==
  [][ (pc = "track" /\ pc' = "check") =>
        LET s == Statuses(trackerFile')[pid]
        IN /\ s = "done" <=> outcome = "zero"
           /\ s = "error; see logs" <=> outcome \in {"nonzero", "exception"}
           /\ s \in {"done", "error; see logs"} ]_vars

\* One run has published two pids, one recorded done and one recorded
\* 'error; see logs'.
PublishStatusWitness ==
  /\ pc = "returned"
  /\ \E p \in published, q \in published :
       /\ Statuses(trackerFile)[p] = "done"
       /\ Statuses(trackerFile)[q] = "error; see logs"

\* C5  A publish failure (non-zero exit, or an exception of the
\* invocation) does not abort the batch: save_mods returns false to
\* manage_update, which records 'error; see logs' and moves to the next
\* pid of the list; manage_update returns only past the end of the list.
PublishFailureContinues ==
  /\ [][ (pc = "save" /\ pc' # "dead" /\ outcome' \in {"nonzero", "exception"}) =>
           (pc' = "track" /\ ~success_check') ]_vars
  /\ [][ (pc = "track" /\ ~success_check /\ pc' # "dead") =>
           /\ pc' = "check"
           /\ i' = i + 1
           /\ Statuses(trackerFile')[pid] = "error; see logs" ]_vars
  /\ [](pc = "returned" => i = Len(pids) + 1)

\* After a failed publish of one pid the run has fetched a later, different
\* pid of the list.
PublishFailureContinuesWitness ==
  \E n \in 1..Len(pids), m \in 1..Len(pids) :
    /\ n < m
    /\ pids[n] # pids[m]
    /\ pids[n] \in published
    /\ Statuses(trackerFile)[pids[n]] = "error; see logs"
    /\ startMap[pids[n]] = "not_done"
    /\ pids[m] \in fetched

\* C6  Whenever control leaves save_mods, by return or by exception, the
\* temporary file it created is gone.
TempFileRemoved ==
  [][ (pc = "save" /\ pc' \in {"track", "aborted"}) => tempLeft' = tempLeft ]_vars

\* C7  save_mods never leaves by an exception: it returns, and returns true
\* exactly when the binary exited with code 0.
SaveModsNeverPropagates ==
  [][ (pc = "save" /\ pc' # "dead") =>
        (pc' = "track" /\ (success_check' <=> outcome' = "zero")) ]_vars

\* C8  The tracker file, if it exists, holds a JSON object, and every
\* change of the file is a completed write of create_tracker or
\* update_tracker.
TrackerFileValid ==
  /\ [](trackerFile.kind \in {"absent", "json"})
  /\ [][ \/ trackerFile' = trackerFile
         \/ trackerFile' = EmptyJson /\ trackerFile.kind # "json"
         \/ /\ pc \in Running
            /\ \E s \in TerminalStatuses :
                 /\ ~update_tracker_raises(trackerFile, s)
                 /\ trackerFile' = update_tracker(pid, trackerFile, s) ]_vars

\* C9  A pid that once had an entry in the tracker file still has one.
KeysNeverRemoved == everKeyed \subseteq Keys(trackerFile)

\* C10  After a completed update_tracker( pid, s ), and with no later
\* update of that pid, a running process reads s for the pid, restarts
\* included.
TrackerDurable ==
  \A p \in Pids :
    (pc \in Running /\ lastSet[p] # NoKey) =>
      /\ tracker_loads(trackerFile)
      /\ check_if_pid_was_processed(p, trackerFile) = lastSet[p]

\* C11  When the fetch, the parse or an operation on the tracker file
\* fails while pids[i] is processed, the run ends there with the error (no
\* later pid is reached), and a read of the tracker gives for the current
\* and for every later pid of the list what it gave before the failure.
UnhandledFailureAborts ==
  failedAt # 0 =>
    /\ pc = "aborted"
    /\ i = failedAt
    /\ \A n \in failedAt..Len(pids) :
         Read(pids[n], trackerFile) = atFailure[pids[n]]

\* C12  Whenever the process has been terminated, the tracker file shows
\* for every pid the status of its last completed update_tracker, and
\* not_done for a pid without one; a pid whose processing is interrupted
\* after the mutation and before the end of its tracker update shows
\* not_done.
CrashRecordsExactly ==
  /\ [](pc = "dead" =>
          \A p \in Pids :
            Statuses(trackerFile)[p] =
              IF lastSet[p] = NoKey THEN "not_done" ELSE lastSet[p])
  /\ [][ (pc \in {"save", "track"} /\ pc' = "dead") =>
           Statuses(trackerFile')[pid] = "not_done" ]_vars

AtLaterDuplicate ==
  /\ pc = "check"
  /\ i <= Len(pids)
  /\ \E n \in 1..(i - 1) : pids[n] = pids[i]
  /\ Statuses(trackerFile)[pids[i]] \in TerminalStatuses
  /\ pc' # "dead"

\* C14 as stated: a later occurrence of a pid in the same run is fetched
\* again after the first occurrence has reached a terminal status.
DuplicateRefetched ==
  [][ AtLaterDuplicate => (pc' = "fetch" \/ pid \in fetched' \ fetched) ]_vars

\* C14  A later occurrence of a pid in the same run is skipped once the
\* first occurrence has reached a terminal status: no fetch, no publish,
\* no change of the tracker, and the loop goes to the next line.
DuplicateSkipped ==
  [][ AtLaterDuplicate =>
        /\ pc' = "check"
        /\ i' = i + 1
        /\ fetched' = fetched
        /\ published' = published
        /\ trackerFile' = trackerFile ]_vars

\* The run has fetched a pid at its first occurrence and has passed over
\* its second occurrence.
DuplicateSkippedWitness ==
  /\ Len(pids) >= 2
  /\ pids[1] = pids[2]
  /\ pc = "check"
  /\ i = 3
  /\ pids[1] \in fetched
  /\ startMap[pids[1]] = "not_done"
  /\ Statuses(trackerFile)[pids[1]] \in TerminalStatuses

\* The steps manage_update can take from one position to the next.
StepOrder ==
  { <<"check", "check">>, <<"check", "fetch">>, <<"fetch", "exists">>,
    <<"exists", "check">>, <<"exists", "mutate">>, <<"mutate", "save">>,
    <<"save", "track">>, <<"track", "check">> }

\* C15  Pids are handled one at a time in file order.  A pid is fetched at
\* most once in a run; its steps come in the order fetch, marker check,
\* mutate, publish, tracker update; a published pid was fetched in the run
\* with a text without the marker and was mutated; and the loop moves to
\* the next line only by the skip or after the tracker update of the
\* current pid.
PerIdentifierOrder ==
  /\ [](pc \in {"exists", "mutate", "save", "track"} => pid \in fetched)
  /\ [](pc \in {"mutate", "save", "track"} =>
          ~ContainsMarkerTag(mods) /\ pid \notin sawMarker)
  /\ [](pc \in {"save", "track"} => pid \in mutated)
  /\ [](pc = "track" => pid \in published)
  /\ [](\A p \in published :
          p \in fetched /\ p \in mutated /\ p \notin sawMarker)
  /\ [][ (runNo' = runNo /\ fetched' # fetched) =>
           /\ pc = "fetch"
           /\ pid \notin fetched
           /\ fetched' = fetched \cup {pid} ]_vars
  /\ [][ (runNo' = runNo /\ i' # i) =>
           /\ i' = i + 1
           /\ pc \in {"check", "exists", "track"}
           /\ pc' = "check"
           /\ Statuses(trackerFile')[pid] \in TerminalStatuses ]_vars
  /\ [][ (runNo' = runNo /\ pc' \in Running) => <<pc, pc'>> \in StepOrder ]_vars

\* A run has taken two different pids through fetch, mutation, publish and
\* tracker update, one after the other, and has returned.
PerIdentifierOrderWitness ==
  /\ pc = "returned"
  /\ Len(pids) = 2
  /\ pids[1] # pids[2]
  /\ published = Pids
  /\ \A p \in Pids : Statuses(trackerFile)[p] \in {"done", "error; see logs"}

\* C16  update_tracker called with a status that is not done,
\* 'error; see logs' or element_already_exists raises and leaves the
\* tracker file as it was.
InvalidStatusRejected ==
  (call.op = "update_tracker" /\ call.status \notin TerminalStatuses) =>
    (call.raised /\ trackerFile = call.before)

\* update_tracker was called with 'not_done' on a tracker file that holds
\* entries.
InvalidStatusRejectedWitness ==
  /\ call.op = "update_tracker"
  /\ call.status = "not_done"
  /\ call.raised
  /\ call.before.kind = "json"
  /\ Keys(call.before) # {}
  /\ call.before.map[call.pid] = "done"

\* C17  create_tracker writes '{}' exactly when tracker.json is absent or
\* zero-length; a file that is not empty is left as it is, and the run
\* that starts reads the statuses the file held.
CreateTrackerFrame ==
  [][ (runNo' # runNo /\ pc' = "check") =>
        IF trackerFile.kind \in {"absent", "empty"}
          THEN trackerFile' = EmptyJson
          ELSE /\ trackerFile' = trackerFile
               /\ startMap' = Statuses(trackerFile) ]_vars

\* A later run has started on a tracker file with entries and reads a
\* terminal status that an earlier run recorded.
CreateTrackerFrameWitness ==
  /\ runNo >= 2
  /\ pc = "check"
  /\ i = 1
  /\ \E p \in Pids :
       /\ lastSet[p] \in TerminalStatuses
       /\ startMap[p] = lastSet[p]
       /\ Statuses(trackerFile)[p] = lastSet[p]

\* C18  When manage_update has returned, every pid of the input file has a
\* terminal status in the tracker.
Completion ==
  pc = "returned" =>
    \A n \in 1..Len(pids) :
      Statuses(trackerFile)[pids[n]] \in TerminalStatuses

\* A run that fetched both pids has returned, one pid recorded by
\* check_if_element_exists and one after save_mods.
CompletionWitness ==
  /\ pc = "returned"
  /\ fetched = Pids
  /\ \E p \in Pids : Statuses(trackerFile)[p] = "element_already_exists"
  /\ \E p \in Pids : Statuses(trackerFile)[p] \in {"done", "error; see logs"}

\* C19  A step of manage_update that is not cut short by a termination
\* changes at most the tracker entry of the pid being processed: the
\* entries of all other pids stay, check_if_pid_was_processed leaves the
\* file as it is, and so does check_if_element_exists for a text without
\* the marker.
StatusUpdateFrame ==
  [][ (pc \in Running /\ pc' # "dead") =>
        /\ trackerFile'.kind = trackerFile.kind
        /\ \A q \in Pids :
             (i > Len(pids) \/ q # pid) =>
               trackerFile'.map[q] = trackerFile.map[q]
        /\ pc = "check" => trackerFile' = trackerFile
        /\ (pc = "exists" /\ ~ContainsMarkerTag(mods)) =>
             trackerFile' = trackerFile ]_vars

\* One run has recorded a status for the first pid and then one for the
\* second, and the entry of the first is still what was recorded.
StatusUpdateFrameWitness ==
  /\ Len(pids) = 2
  /\ pids[1] # pids[2]
  /\ pc = "check"
  /\ i = 3
  /\ fetched = Pids
  /\ \A p \in Pids :
       lastSet[p] \in TerminalStatuses /\ trackerFile.map[p] = lastSet[p]

\* C20  Two runs on one tracker file are not safe: nothing locks the
\* file, so every rewrite of update_tracker stores the mapping the run
\* loaded, with its own entry set, whatever the other run has written
\* since the load.  An entry the other run wrote after the load is gone
\* after the rewrite, and a pid that both runs read as not_done is
\* published by both.
ConcurrentRunsUnsafe ==
     [][ \A r \in Runs :
           (runs[r].pc = "rewrite" /\ runs'[r].pc # "rewrite") =>
             /\ trackerFile'.kind = "json"
             /\ \A q \in Pids :
                  trackerFile'.map[q] =
                    IF q = rpid(r) THEN runs[r].status ELSE runs[r].tracker[q]
         ]_vars

\* The rewrite of one run has removed an entry the other run had written,
\* and one pid has been published by both runs.
ConcurrentRunsUnsafeWitness ==
  /\ discarded # {}
  /\ runs[1].published \cap runs[2].published # {}

====
